---- MODULE Spec2Model ----
(***************************************************************************)
(* Topology assembly of configs/example/riscv/devices.py (cluster          *)
(* composers, Fastmodel bridge assembler) and of                            *)
(* configs/example/arm/starter_se.py (SimpleSeSystem, create, main).        *)
(*                                                                          *)
(* Python objects are records, None is the string "None", an optional       *)
(* attribute of an object (self.l2, self.toL2Bus) is a sequence of length   *)
(* 0 (attribute absent) or 1.  Strings built by the code with % and join    *)
(* are sequences of their pieces.                                           *)
(***************************************************************************)
EXTENDS Integers, Sequences, FiniteSets, TLC

VARIABLES cpu_types,    \* starter_se.py module global: selector -> 4-tuple
          cache_size,   \* devices.L1I.size, devices.L1D.size, devices.L2.size
          system,       \* the owning system object under assembly
          outcome,      \* the last call made and how it ended
          pc            \* position of main(): "start", "created", "aborted", "instantiated"

vars == <<cpu_types, cache_size, system, outcome, pc>>

----------------------------------------------------------------------------
(* Bounds of the explored input space *)

MaxCores == 2          \* largest num_cpus handed to a cluster composer
MaxClusters == 2       \* clusters registered on one system
MaxCommands == 3       \* longest commands_to_run list
MaxBridgeSetups == 1   \* FastmodelCluster constructions attempted on one system

(* Program constants *)

MaxFastmodelCores == 4       \* devices.py:233  assert num_cpus <= 4
RedistFrameV4_1 == 262144    \* devices.py:208  0x40000
RedistFrame == 131072        \* devices.py:208  0x20000
PidBase == 100               \* starter_se.py:174  pid=100 + idx

None == "None"

----------------------------------------------------------------------------
(* starter_se.py cpu_types: (cpu_class, l1_icache, l1_dcache, l2_cache) *)

CpuSelectors == {"atomic", "minor", "hpi", "ac", "o3", "timing", "ex5", "ex5l", "pk"}

cpu_types_init ==
    [s \in CpuSelectors |->
        CASE s = "atomic" -> <<"AtomicSimpleCPU", None, None, None>>
          [] s = "minor"  -> <<"MinorCPU", "devices.L1I", "devices.L1D", "devices.L2">>
          [] s = "hpi"    -> <<"HPI", "HPI_ICache", "HPI_DCache", "HPI_L2">>
          [] s = "ac"     -> <<"AtomicSimpleCPU", "devices.L1I", "devices.L1D", "devices.L2">>
          [] s = "o3"     -> <<"O3CPU", "devices.L1I", "devices.L1D", "devices.L2">>
          [] s = "timing" -> <<"O3_ARM_v7a_3", "devices.L1I", "devices.L1D", "devices.L2">>
          [] s = "ex5"    -> <<"ex5_big", "ex5_big.L1I", "ex5_big.L1D", "ex5_big.L2">>
          [] s = "ex5l"   -> <<"ex5_LITTLE", "ex5_LITTLE.L1I", "ex5_LITTLE.L1D", "ex5_LITTLE.L2">>
          [] s = "pk"     -> <<"O3_ARM_PostK_3", "O3_ARM_PostK_ICache", "O3_ARM_PostK_DCache",
                               "O3_ARM_PostK_L2">>]

(* devices.py class attributes L1I.size, L1D.size, L2.size *)
cache_size_init == [L1I |-> "48kB", L1D |-> "32kB", L2 |-> "1MB"]

(* The static capability declarations of the CPU classes (m5.objects). *)
memory_mode(cpu_class) ==
    IF cpu_class = "AtomicSimpleCPU" THEN "atomic"
    ELSE IF cpu_class = "ArmV8KvmCPU" THEN "atomic_noncaching"
    ELSE "timing"

require_caches(cpu_class) == memory_mode(cpu_class) = "timing"

----------------------------------------------------------------------------
(* Sequence helpers *)

RECURSIVE Concat(_, _, _)
(* f[1] \o f[2] \o ... \o f[n], the pieces in list order *)
Concat(f, i, n) == IF i > n THEN <<>> ELSE f[i] \o Concat(f, i + 1, n)

Range(s) == {s[i] : i \in 1..Len(s)}

----------------------------------------------------------------------------
(* The owning system: SimpleSeSystem bookkeeping and its memory bus.  The  *)
(* attributes realview and iobus are sequences of length 0 when the        *)
(* system has no such attribute and of length 1 when it has.               *)

BusConn(src, cl, id) == [src |-> src, cl |-> cl, id |-> id]

(* state after starter_se.py lines 104-117: a SimpleSeSystem has neither a *)
(* realview platform nor an iobus                                          *)
NewSystem ==
    [clusters   |-> <<>>,                     \* self._clusters
     num_cpus   |-> 0,                        \* self._num_cpus
     membus     |-> <<BusConn("system_port", 0, -1)>>,  \* membus.cpu_side_ports
     membus_mem |-> <<>>,                     \* membus.mem_side_ports
     iobus      |-> <<>>,                     \* no attribute iobus
     realview   |-> <<>>,                     \* no attribute realview
     gic_hub    |-> {},                       \* children of system.gic_hub
     mem_mode   |-> None,
     workload   |-> None,
     trace      |-> <<>>]                     \* cluster methods called by __init__, in order

(* a system with the attributes FastmodelCluster.__init__ reads: a         *)
(* realview platform whose gic reports the given redistributor base and    *)
(* GICv4.1 flag, and an iobus with no connection yet                       *)
GicSystem(redist_base, has_gicv4_1) ==
    [NewSystem EXCEPT
       !.realview = <<[gic |-> [redist_base |-> redist_base,
                                has_gicv4_1 |-> has_gicv4_1,
                                cpu_affinities |-> <<>>,
                                reg_base_per_redistributor |-> <<>>,
                                amba_s |-> None]]>>,
       !.iobus = <<<<>>>>]                    \* iobus.cpu_side_ports, empty

(* system.realview.gic of a system that has it *)
Gic(sys) == sys.realview[1].gic

numCpuClusters(sys) == Len(sys.clusters)

numCpus(sys) == sys.num_cpus

(* variant: the core count is not checked on registration *)
addCpuCluster_unchecked(sys, cpu_cluster, num_cpus) ==
    IF \E i \in 1..Len(sys.clusters) : sys.clusters[i].oid = cpu_cluster.oid
    THEN [status |-> "AssertionError", system |-> sys]
    ELSE [status |-> "ok",
          system |-> [sys EXCEPT !.clusters = Append(@, cpu_cluster),
                                 !.num_cpus = @ + num_cpus]]

(* variant: a cluster already in the list is registered again *)
addCpuCluster_again(sys, cpu_cluster, num_cpus) ==
    IF ~(num_cpus > 0)
    THEN [status |-> "AssertionError", system |-> sys]
    ELSE [status |-> "ok",
          system |-> [sys EXCEPT !.clusters = Append(@, cpu_cluster),
                                 !.num_cpus = @ + num_cpus]]

(* SimpleSeSystem.addCpuCluster: a result record, status "ok" or the       *)
(* exception raised; membership in _clusters is object identity (oid).      *)
addCpuCluster(sys, cpu_cluster, num_cpus) ==
    IF \E i \in 1..Len(sys.clusters) : sys.clusters[i].oid = cpu_cluster.oid
    THEN [status |-> "AssertionError", system |-> sys]
    ELSE IF ~(num_cpus > 0)
    THEN [status |-> "AssertionError", system |-> sys]
    ELSE [status |-> "ok",
          system |-> [sys EXCEPT !.clusters = Append(@, cpu_cluster),
                                 !.num_cpus = @ + num_cpus]]

----------------------------------------------------------------------------
(* devices.py: CpuClusterRiscV and its subclasses *)

(* one element of self.cpus: cpu_type(cpu_id=..., clk_domain=...) followed *)
(* by createThreads, createInterruptController and the socket_id store     *)
NewCpu(cpu_class, cpu_id, socket_id) ==
    [cpu_class  |-> cpu_class,
     cpu_id     |-> cpu_id,
     socket_id  |-> socket_id,
     threads    |-> TRUE,
     icache     |-> None,
     dcache     |-> None,
     cached_to  |-> <<>>,      \* peers given to connectCachedPorts, in call order
     workload   |-> 0,         \* pid of the bound Process, 0 when unbound
     branchPred |-> None,
     max_insts  |-> 0,
     simpoint   |-> FALSE]

(* variant: core ids numbered from 0 in every cluster *)
NewCpus_local(sys, cpu_class, num_cpus) ==
    [k \in 1..num_cpus |-> NewCpu(cpu_class, k - 1, numCpuClusters(sys))]

(* the list comprehension of devices.py lines 113-115 and the loop 117-120 *)
NewCpus(sys, cpu_class, num_cpus) ==
    [k \in 1..num_cpus |-> NewCpu(cpu_class, numCpus(sys) + (k - 1), numCpuClusters(sys))]

NewCluster(sys, kind, cpu_type, l1i_type, l1d_type, l2_type, cpus) ==
    [oid       |-> Len(sys.clusters) + 1,
     kind      |-> kind,
     cpu_type  |-> cpu_type,
     l1i_type  |-> l1i_type,
     l1d_type  |-> l1d_type,
     l2_type   |-> l2_type,
     cpus      |-> cpus,
     cores     |-> <<>>,       \* cpu.cores of the external model (Fastmodel only)
     l1i_built |-> 0,          \* instances made by self._l1i_type()
     l1d_built |-> 0,          \* instances made by self._l1d_type()
     toL2Bus   |-> <<>>,       \* attribute absent until addL2 sets it
     l2        |-> <<>>]       \* attribute absent until addL2 sets it

(* CpuClusterRiscV.__init__ *)
CpuClusterRiscV(sys, kind, num_cpus, cpu_type, l1i_type, l1d_type, l2_type) ==
    IF ~(num_cpus > 0)
    THEN [status |-> "AssertionError", system |-> sys, ext |-> 0]
    ELSE LET self == NewCluster(sys, kind, cpu_type, l1i_type, l1d_type, l2_type,
                                NewCpus(sys, cpu_type, num_cpus))
             r == addCpuCluster(sys, self, num_cpus)
         IN [status |-> r.status, system |-> r.system, ext |-> 0]

(* AtomicCluster.__init__: cpu_config = [AtomicSimpleCPU, None, None, None, *)
(* None] has five entries and *cpu_config is passed to                     *)
(* CpuClusterRiscV.__init__, which takes four types: the call raises       *)
(* TypeError for every num_cpus, before the assert and before anything is  *)
(* built or registered                                                     *)
AtomicCluster(sys, num_cpus) ==
    [status |-> "TypeError", system |-> sys, ext |-> 0]

(* KvmCluster.__init__: the same five-entry cpu_config, the same TypeError *)
KvmCluster(sys, num_cpus) ==
    [status |-> "TypeError", system |-> sys, ext |-> 0]

(* BaseCPU.addPrivateSplitL1Caches(ic, dc): the pair is attached to the    *)
(* core's cached port when both caches are given                           *)
addPrivateSplitL1Caches(cpu, ic, dc) ==
    IF ic # None /\ dc # None
    THEN [cpu EXCEPT !.icache = ic, !.dcache = dc]
    ELSE cpu

(* BaseCPU.connectCachedPorts(in_ports): one connection of the core to the *)
(* given interconnect                                                      *)
connectCachedPorts(cpu, peer) == [cpu EXCEPT !.cached_to = Append(@, peer)]

(* variant: only the first core of the cluster gets its private caches *)
CpuClusterRiscV_addL1_first(self) ==
    [self EXCEPT
       !.l1i_built = IF self.l1i_type = None THEN @ ELSE @ + 1,
       !.l1d_built = IF self.l1d_type = None THEN @ ELSE @ + 1,
       !.cpus = [k \in 1..Len(self.cpus) |->
                    IF k = 1
                    THEN addPrivateSplitL1Caches(self.cpus[k], self.l1i_type, self.l1d_type)
                    ELSE self.cpus[k]]]

(* CpuClusterRiscV.addL1 *)
CpuClusterRiscV_addL1(self) ==
    LET n == Len(self.cpus)
        l1i == self.l1i_type       \* None if self._l1i_type is None else an instance
        l1d == self.l1d_type
    IN [self EXCEPT
          !.l1i_built = IF self.l1i_type = None THEN @ ELSE @ + n,
          !.l1d_built = IF self.l1d_type = None THEN @ ELSE @ + n,
          !.cpus = [k \in 1..n |-> addPrivateSplitL1Caches(self.cpus[k], l1i, l1d)]]

(* variant: the L2 and its crossbar are built without looking at the type *)
CpuClusterRiscV_addL2_always(self) ==
    [self EXCEPT
       !.toL2Bus = <<[width |-> 64,
                      cpu_side_ports |-> [k \in 1..Len(self.cpus) |-> self.cpus[k].cpu_id],
                      mem_side_ports |-> "l2.cpu_side"]>>,
       !.l2 = <<[type |-> self.l2_type, mem_side |-> None]>>,
       !.cpus = [k \in 1..Len(self.cpus) |-> connectCachedPorts(self.cpus[k], "toL2Bus")]]

(* CpuClusterRiscV.addL2 *)
CpuClusterRiscV_addL2(self) ==
    IF self.l2_type = None
    THEN self
    ELSE [self EXCEPT
            !.toL2Bus = <<[width |-> 64,
                           cpu_side_ports |-> [k \in 1..Len(self.cpus) |-> self.cpus[k].cpu_id],
                           mem_side_ports |-> "l2.cpu_side"]>>,
            !.l2 = <<[type |-> self.l2_type, mem_side |-> None]>>,
            !.cpus = [k \in 1..Len(self.cpus) |-> connectCachedPorts(self.cpus[k], "toL2Bus")]]

(* variant: every core is connected to the bus whether or not an L2 exists *)
CpuClusterRiscV_connectMemSide_cores(self, bus) ==
    [cluster |-> [self EXCEPT
                    !.cpus = [k \in 1..Len(self.cpus) |->
                                 connectCachedPorts(self.cpus[k], "membus")]],
     bus |-> bus \o [k \in 1..Len(self.cpus) |->
                        BusConn("cpu", self.oid, self.cpus[k].cpu_id)]]

(* CpuClusterRiscV.connectMemSide(bus): the cluster and the bus's          *)
(* cpu_side_ports afterwards.  self.l2 raises AttributeError exactly when  *)
(* addL2 has not set the attribute.                                        *)
CpuClusterRiscV_connectMemSide(self, bus) ==
    IF Len(self.l2) > 0
    THEN [cluster |-> [self EXCEPT !.l2[1].mem_side = "membus"],
          bus |-> Append(bus, BusConn("l2", self.oid, -1))]
    ELSE [cluster |-> [self EXCEPT
                         !.cpus = [k \in 1..Len(self.cpus) |->
                                      connectCachedPorts(self.cpus[k], "membus")]],
          bus |-> bus \o [k \in 1..Len(self.cpus) |->
                             BusConn("cpu", self.oid, self.cpus[k].cpu_id)]]

(* method dispatch over the cluster variants *)
addL1(self) ==
    IF self.kind = "CpuClusterRiscV" THEN CpuClusterRiscV_addL1(self)
    ELSE self                         \* AtomicCluster, KvmCluster, FastmodelCluster: pass

addL2(self) ==
    IF self.kind = "FastmodelCluster" THEN self       \* pass
    ELSE CpuClusterRiscV_addL2(self)

connectMemSide(self, bus) ==
    IF self.kind = "FastmodelCluster" THEN [cluster |-> self, bus |-> bus]   \* pass
    ELSE CpuClusterRiscV_connectMemSide(self, bus)

memoryMode(self) ==
    IF self.kind = "FastmodelCluster" THEN "atomic_noncaching"
    ELSE memory_mode(self.cpu_type)

requireCaches(self) ==
    IF self.kind = "FastmodelCluster" THEN FALSE
    ELSE require_caches(self.cpu_type)

(* what the wiring calls have already done to a cluster *)
L1Added(self) == self.l1i_built + self.l1d_built > 0

L2Added(self) == Len(self.l2) > 0

MemConnected(self) ==
    \/ L2Added(self) /\ self.l2[1].mem_side # None
    \/ \E k \in 1..Len(self.cpus) :
          \E j \in 1..Len(self.cpus[k].cached_to) : self.cpus[k].cached_to[j] = "membus"

----------------------------------------------------------------------------
(* devices.py: FastmodelCluster *)

HexDigits == <<"0", "1", "2", "3", "4", "5", "6", "7",
               "8", "9", "a", "b", "c", "d", "e", "f">>

RECURSIVE ToHex(_)
(* the digits of '%x' % n for n >= 0, most significant first *)
ToHex(n) == IF n < 16 THEN <<HexDigits[n + 1]>>
            ELSE Append(ToHex(n \div 16), HexDigits[(n % 16) + 1])

(* '%#x' % n for n >= 0 *)
FormatHex(n) == <<"0", "x">> \o ToHex(n)

(* '0.0.%d.0' % i, kept as its four fields *)
Affinity(i) == <<0, 0, i, 0>>

(* variant: the two frame sizes exchanged *)
redist_frame_size_swapped(gic) == IF gic.has_gicv4_1 THEN RedistFrame ELSE RedistFrameV4_1

(* redist_frame_size = 0x40000 if gic.sc_gic.has_gicv4_1 else 0x20000 *)
redist_frame_size(gic) == IF gic.has_gicv4_1 THEN RedistFrameV4_1 ELSE RedistFrame

(* one entry '0.0.%d.0=%#x' % (i, redist_base + redist_frame_size * i) *)
RedistEntry(gic, i) ==
    [aff |-> Affinity(i), addr |-> FormatHex(gic.redist_base + redist_frame_size(gic) * i)]

(* devices.py lines 202-226: GIC setup and the gic_hub bridges; range(n)   *)
(* is empty for n <= 0                                                      *)
SetupGic(sys, num_cpus) ==
    [sys EXCEPT
       !.realview[1].gic.cpu_affinities = [k \in 1..num_cpus |-> Affinity(k - 1)],
       !.realview[1].gic.reg_base_per_redistributor =
           [k \in 1..num_cpus |-> RedistEntry(Gic(sys), k - 1)],
       !.realview[1].gic.amba_s = "gic_t2a.amba",
       !.iobus[1] = Append(@, "gic_t2g"),
       !.membus_mem = Append(@, "gic_g2t"),
       !.gic_hub = {"gic_a2t", "gic_t2g", "gic_g2t", "gic_t2a"}]

(* CpuClasses[num_cpus - 1] over the four-entry list, as the number of     *)
(* cores of the class selected; 0 stands for IndexError.  Python counts a  *)
(* negative index from the end of the list.                                *)
CpuClassCores(num_cpus) ==
    LET i == num_cpus - 1
    IN IF i \in 0..(MaxFastmodelCores - 1) THEN i + 1
       ELSE IF i \in (0 - MaxFastmodelCores)..(-1) THEN i + MaxFastmodelCores + 1
       ELSE 0

(* one element of cpu.cores after the loop of lines 239-244 *)
NewCore(k) ==
    [core |-> k, semihosting_enable |-> FALSE, RVBARADDR |-> 16,
     redistributor |-> "gic.redistributor", threads |-> TRUE]

(* variant: a core count above the maximum is clamped instead of rejected *)
FastmodelCluster_clamped(sys, num_cpus) ==
    LET sys1 == SetupGic(sys, num_cpus)
        m == IF num_cpus > MaxFastmodelCores THEN MaxFastmodelCores
             ELSE CpuClassCores(num_cpus)
        cpu == [NewCpu("FastModelCortexA76", -1, -1) EXCEPT !.threads = FALSE]
        self == [NewCluster(sys, "FastmodelCluster", "FastModelCortexA76",
                            None, None, None, <<cpu>>)
                   EXCEPT !.cores = [k \in 1..m |-> NewCore(k - 1)]]
        sys2 == [sys1 EXCEPT !.membus = Append(@, BusConn("t2g", self.oid, -1)),
                             !.gic_hub = @ \cup {"a2t", "t2g"}]
        r == addCpuCluster(sys2, self, num_cpus)
    IN IF Len(sys.realview) = 0
       THEN [status |-> "AttributeError", system |-> sys, ext |-> 0]
       ELSE IF m = 0
       THEN [status |-> "IndexError", system |-> sys1, ext |-> 0]
       ELSE [status |-> r.status, system |-> r.system, ext |-> m]

(* FastmodelCluster.__init__ *)
FastmodelCluster(sys, num_cpus) ==
    LET sys1 == SetupGic(sys, num_cpus)
        m == CpuClassCores(num_cpus)
        cpu == [NewCpu("FastModelCortexA76", -1, -1) EXCEPT !.threads = FALSE]
        self == [NewCluster(sys, "FastmodelCluster", "FastModelCortexA76",
                            None, None, None, <<cpu>>)
                   EXCEPT !.cores = [k \in 1..m |-> NewCore(k - 1)]]
        sys2 == [sys1 EXCEPT !.membus = Append(@, BusConn("t2g", self.oid, -1)),
                             !.gic_hub = @ \cup {"a2t", "t2g"}]
        r == addCpuCluster(sys2, self, num_cpus)
    IN IF Len(sys.realview) = 0
       THEN [status |-> "AttributeError", system |-> sys, ext |-> 0]   \* line 202
       ELSE IF ~(num_cpus <= MaxFastmodelCores)
       THEN [status |-> "AssertionError", system |-> sys1, ext |-> 0]
       ELSE IF m = 0
       THEN [status |-> "IndexError", system |-> sys1, ext |-> 0]
       ELSE [status |-> r.status, system |-> r.system, ext |-> m]

----------------------------------------------------------------------------
(* starter_se.py: SimpleSeSystem.__init__, get_processes, create *)

(* the cpu_cluster of a SimpleSeSystem is its only registered cluster *)
cpu_cluster(sys) == sys.clusters[1]

(* variant: the cluster is connected to the bus before its caches are wired *)
WireCluster_memFirst(cl0, args, bus) ==
    LET timing == memoryMode(cl0) = "timing"
        wire == timing \/ args.cpu = "ac"
        r == connectMemSide(cl0, bus)
        cl1 == IF wire THEN addL1(r.cluster) ELSE r.cluster
        cl2 == IF wire THEN addL2(cl1) ELSE cl1
    IN [cluster |-> cl2,
        bus |-> r.bus,
        trace |-> <<"connectMemSide">> \o (IF wire THEN <<"addL1", "addL2">> ELSE <<>>)]

(* lines 130-138: cache wiring chosen by memoryMode(), then connectMemSide *)
WireCluster(cl0, args, bus) ==
    LET timing == memoryMode(cl0) = "timing"
        wire == timing \/ args.cpu = "ac"
        cl1 == IF wire THEN addL1(cl0) ELSE cl0
        cl2 == IF wire THEN addL2(cl1) ELSE cl1
        cl3 == IF ~timing /\ args.cpu = "ac"
               THEN [cl2 EXCEPT !.cpus = [k \in 1..Len(cl2.cpus) |->
                                   IF k <= args.num_cores
                                   THEN [cl2.cpus[k] EXCEPT !.branchPred = "O3_ARM_v7a_BP"]
                                   ELSE cl2.cpus[k]]]
               ELSE cl2
        r == connectMemSide(cl3, bus)
    IN [cluster |-> r.cluster,
        bus |-> r.bus,
        trace |-> (IF wire THEN <<"addL1", "addL2">> ELSE <<>>) \o <<"connectMemSide">>]

(* lines 140-148: instruction cap and SimPoint probe on every core *)
ApplyCpuOptions(cl, args) ==
    [cl EXCEPT !.cpus = [k \in 1..Len(cl.cpus) |->
        [cl.cpus[k] EXCEPT
           !.max_insts = IF args.maxinsts # 0 THEN args.maxinsts ELSE @,
           !.simpoint = IF args.simpoint_profile THEN TRUE ELSE @]]]

(* variant: mem_mode set from the cache wiring instead of memoryMode() *)
SimpleSeSystem_modeByWiring(args, types) ==
    LET sys0 == NewSystem
        t == types[args.cpu]
        c == CpuClusterRiscV(sys0, "CpuClusterRiscV", args.num_cores, t[1], t[2], t[3], t[4])
        w == WireCluster(cpu_cluster(c.system), args, c.system.membus)
        cl == ApplyCpuOptions(w.cluster, args)
    IN IF c.status # "ok"
       THEN [status |-> c.status, system |-> c.system]
       ELSE [status |-> "ok",
             system |-> [c.system EXCEPT !.clusters[1] = cl,
                                         !.membus = w.bus,
                                         !.trace = w.trace,
                                         !.mem_mode = IF L2Added(cl) THEN "timing"
                                                      ELSE "atomic"]]

(* SimpleSeSystem.__init__(args) with the cpu_types table in force; the    *)
(* cluster class devices.CpuCluster is the composer CpuClusterRiscV        *)
SimpleSeSystem(args, types) ==
    LET sys0 == NewSystem
        t == types[args.cpu]
        c == CpuClusterRiscV(sys0, "CpuClusterRiscV", args.num_cores, t[1], t[2], t[3], t[4])
        w == WireCluster(cpu_cluster(c.system), args, c.system.membus)
        cl == ApplyCpuOptions(w.cluster, args)
    IN IF c.status # "ok"
       THEN [status |-> c.status, system |-> c.system]
       ELSE [status |-> "ok",
             system |-> [c.system EXCEPT !.clusters[1] = cl,
                                         !.membus = w.bus,
                                         !.trace = w.trace,
                                         !.mem_mode = memoryMode(cl)]]

(* get_processes(cmd): one Process per command, pid = 100 + idx *)
get_processes(cmd) == [k \in 1..Len(cmd) |-> [pid |-> PidBase + (k - 1), cmd |-> cmd[k]]]

(* variant: the processes handed out from the end of the list *)
AssignWorkloads_reversed(cl, processes) ==
    [cl EXCEPT !.cpus = [k \in 1..Len(cl.cpus) |->
        IF k <= Len(processes)
        THEN [cl.cpus[k] EXCEPT !.workload = processes[Len(processes) + 1 - k].pid]
        ELSE cl.cpus[k]]]

(* zip(system.cpu_cluster.cpus, processes): pairs up to the shorter list *)
AssignWorkloads(cl, processes) ==
    [cl EXCEPT !.cpus = [k \in 1..Len(cl.cpus) |->
        IF k <= Len(processes)
        THEN [cl.cpus[k] EXCEPT !.workload = processes[k].pid]
        ELSE cl.cpus[k]]]

(* lines 186-196: the size overrides written to the devices classes *)
OverrideSizes(args, sizes) ==
    [sizes EXCEPT
       !.L1D = IF args.l1d_size # "" THEN args.l1d_size ELSE @,
       !.L1I = IF args.l1i_size # "" THEN args.l1i_size ELSE @,
       !.L2  = IF args.l2_size # "" /\ args.l2_size # "0" THEN args.l2_size ELSE @]

(* variant: the "0" sentinel is not recognised *)
OverrideTypes_keep(args, types) == types

(* lines 190-194: "0" rewrites the selected table entry with l2 = None *)
OverrideTypes(args, types) ==
    IF args.l2_size # "" /\ args.l2_size = "0"
    THEN [types EXCEPT ![args.cpu] = <<types[args.cpu][1], types[args.cpu][2],
                                        types[args.cpu][3], None>>]
    ELSE types

(* variant: the command count is not compared with the core count *)
create_unchecked(args, types, sizes) ==
    LET types1 == OverrideTypes(args, types)
        sizes1 == OverrideSizes(args, sizes)
        s == SimpleSeSystem(args, types1)
        sys1 == [s.system EXCEPT !.membus_mem = Append(@, "mem_ctrls")]
        processes == get_processes(args.commands_to_run)
        sys2 == [sys1 EXCEPT !.workload = "SEWorkload",
                             !.clusters[1] = AssignWorkloads(cpu_cluster(sys1), processes)]
    IN IF s.status # "ok"
       THEN [status |-> s.status, system |-> s.system, types |-> types1, sizes |-> sizes1]
       ELSE [status |-> "ok", system |-> sys2, types |-> types1, sizes |-> sizes1]

(* variant: the table override takes effect only after the system is built *)
create_lateOverride(args, types, sizes) ==
    LET types1 == OverrideTypes(args, types)
        sizes1 == OverrideSizes(args, sizes)
        s == SimpleSeSystem(args, types)
        sys1 == [s.system EXCEPT !.membus_mem = Append(@, "mem_ctrls")]
        processes == get_processes(args.commands_to_run)
        sys2 == [sys1 EXCEPT !.workload = "SEWorkload",
                             !.clusters[1] = AssignWorkloads(cpu_cluster(sys1), processes)]
    IN IF s.status # "ok"
       THEN [status |-> s.status, system |-> s.system, types |-> types1, sizes |-> sizes1]
       ELSE IF Len(processes) # args.num_cores
       THEN [status |-> "exit", system |-> sys1, types |-> types1, sizes |-> sizes1]
       ELSE [status |-> "ok", system |-> sys2, types |-> types1, sizes |-> sizes1]

(* create(args), args.random = 0.  status "exit" is the sys.exit(1) of     *)
(* line 225.                                                               *)
create(args, types, sizes) ==
    LET types1 == OverrideTypes(args, types)
        sizes1 == OverrideSizes(args, sizes)
        s == SimpleSeSystem(args, types1)
        sys1 == [s.system EXCEPT !.membus_mem = Append(@, "mem_ctrls")]
        processes == get_processes(args.commands_to_run)
        sys2 == [sys1 EXCEPT !.workload = "SEWorkload",
                             !.clusters[1] = AssignWorkloads(cpu_cluster(sys1), processes)]
    IN IF s.status # "ok"
       THEN [status |-> s.status, system |-> s.system, types |-> types1, sizes |-> sizes1]
       ELSE IF Len(processes) # args.num_cores
       THEN [status |-> "exit", system |-> sys1, types |-> types1, sizes |-> sizes1]
       ELSE [status |-> "ok", system |-> sys2, types |-> types1, sizes |-> sizes1]

----------------------------------------------------------------------------
(* Inputs *)

(* redistributor base addresses of the interrupt controller: 0x0, 0x2c010000 *)
RedistBases == {0, 738263040}

(* (cpu_class, l1i, l1d, l2) tuples handed to CpuClusterRiscV directly *)
ApiCpuConfigs ==
    {cpu_types_init["atomic"], cpu_types_init["timing"],
     <<"O3_ARM_v7a_3", "devices.L1I", "devices.L1D", None>>}

(* every combination of configured and absent cache types, for a timing    *)
(* and for an atomic core class                                            *)
L1CpuConfigs ==
    {<<c, i, d, l2>> : c \in {"O3_ARM_v7a_3", "AtomicSimpleCPU"},
                       i \in {None, "devices.L1I"}, d \in {None, "devices.L1D"},
                       l2 \in {None, "devices.L2"}}

CoreCounts == 0..MaxCores

FastmodelCoreCounts == (0 - MaxFastmodelCores)..(MaxFastmodelCores + 1)

Commands(k) == [i \in 1..k |-> i]

ArgSet ==
    [cpu : CpuSelectors,
     num_cores : 0..MaxCores,
     l1d_size : {"", "64kB"},
     l1i_size : {"", "64kB"},
     l2_size : {"", "0", "512kB"},
     maxinsts : {0, 1000},
     simpoint_profile : BOOLEAN,
     commands_to_run : {Commands(k) : k \in 0..MaxCommands}]

NoArgs == [cpu |-> "", num_cores |-> 0, l1d_size |-> "", l1i_size |-> "", l2_size |-> "",
           maxinsts |-> 0, simpoint_profile |-> FALSE, commands_to_run |-> <<>>]

Outcome(op, n, idx, status, ext, args) ==
    [op |-> op, n |-> n, idx |-> idx, status |-> status, ext |-> ext, args |-> args]

----------------------------------------------------------------------------
(* Initial states: nothing assembled yet *)

InitGlobals ==
    /\ cpu_types = cpu_types_init
    /\ cache_size = cache_size_init
    /\ outcome = Outcome("init", 0, 0, "ok", 0, NoArgs)
    /\ pc = "start"

Init == InitGlobals /\ system = NewSystem

(* a system whose interrupt controller is one of the supported variants *)
InitGic == InitGlobals /\ \E b \in RedistBases, f \in BOOLEAN : system = GicSystem(b, f)

(* Cluster constructions on the owning system *)

Construct(op, n, r) ==
    /\ numCpuClusters(system) < MaxClusters
    /\ system' = r.system
    /\ outcome' = Outcome(op, n, 0, r.status, r.ext, NoArgs)
    /\ UNCHANGED <<cpu_types, cache_size, pc>>

NewCpuClusterRiscV ==
    \E n \in CoreCounts, t \in ApiCpuConfigs :
        Construct("CpuClusterRiscV", n,
                  CpuClusterRiscV(system, "CpuClusterRiscV", n, t[1], t[2], t[3], t[4]))

NewAtomicCluster ==
    \E n \in CoreCounts : Construct("AtomicCluster", n, AtomicCluster(system, n))

NewKvmCluster ==
    \E n \in CoreCounts : Construct("KvmCluster", n, KvmCluster(system, n))

NewFastmodelCluster ==
    \E n \in FastmodelCoreCounts :
        /\ (Len(system.iobus) > 0 => Len(system.iobus[1]) < MaxBridgeSetups)
        /\ Construct("FastmodelCluster", n, FastmodelCluster(system, n))

(* Wiring calls on a registered cluster, in the order the data             *)
(* dependencies allow: addL1, addL2, connectMemSide, and none repeated     *)
(* once it has had an effect.                                              *)

CallAddL1 ==
    \E i \in 1..Len(system.clusters) :
        LET cl == system.clusters[i] IN
        /\ ~L1Added(cl) /\ ~L2Added(cl) /\ ~MemConnected(cl)
        /\ system' = [system EXCEPT !.clusters[i] = addL1(cl)]
        /\ outcome' = Outcome("addL1", 0, i, "ok", 0, NoArgs)
        /\ UNCHANGED <<cpu_types, cache_size, pc>>

CallAddL2 ==
    \E i \in 1..Len(system.clusters) :
        LET cl == system.clusters[i] IN
        /\ ~L2Added(cl) /\ ~MemConnected(cl)
        /\ system' = [system EXCEPT !.clusters[i] = addL2(cl)]
        /\ outcome' = Outcome("addL2", 0, i, "ok", 0, NoArgs)
        /\ UNCHANGED <<cpu_types, cache_size, pc>>

CallConnectMemSide ==
    \E i \in 1..Len(system.clusters) :
        LET cl == system.clusters[i]
            r == connectMemSide(cl, system.membus)
        IN
        /\ ~MemConnected(cl)
        /\ system' = [system EXCEPT !.clusters[i] = r.cluster, !.membus = r.bus]
        /\ outcome' = Outcome("connectMemSide", 0, i, "ok", 0, NoArgs)
        /\ UNCHANGED <<cpu_types, cache_size, pc>>

(* Cluster composers and their wiring on one system *)
Next ==
    \/ NewCpuClusterRiscV
    \/ NewAtomicCluster
    \/ CallAddL1
    \/ CallAddL2
    \/ CallConnectMemSide

Spec == Init /\ [][Next]_vars

(* Every cluster variant constructed on a system with an interrupt         *)
(* controller                                                              *)
NextGic ==
    \/ NewCpuClusterRiscV
    \/ NewAtomicCluster
    \/ NewKvmCluster
    \/ NewFastmodelCluster

SpecGic == InitGic /\ [][NextGic]_vars

(* system.addCpuCluster(cluster, n) called for a cluster that is already   *)
(* registered                                                              *)
ReRegister ==
    \E i \in 1..Len(system.clusters), n \in CoreCounts :
        LET r == addCpuCluster(system, system.clusters[i], n) IN
        /\ system' = r.system
        /\ outcome' = Outcome("addCpuCluster", n, i, r.status, 0, NoArgs)
        /\ UNCHANGED <<cpu_types, cache_size, pc>>

(* Registration: clusters constructed through CpuClusterRiscV.__init__,    *)
(* through its subclass AtomicCluster and through                          *)
(* FastmodelCluster.__init__, and registration of a cluster attempted      *)
(* again                                                                   *)
NextRegister ==
    \/ NewCpuClusterRiscV
    \/ NewAtomicCluster
    \/ NewFastmodelCluster
    \/ ReRegister

(* a SimpleSeSystem, or a system with an interrupt controller *)
InitRegister == InitGlobals /\ system \in {NewSystem, GicSystem(0, FALSE)}

SpecRegister == InitRegister /\ [][NextRegister]_vars

(* One composer cluster with any combination of cache types, and its wiring *)
NewCacheCluster ==
    \E n \in CoreCounts, t \in L1CpuConfigs :
        /\ numCpuClusters(system) = 0
        /\ Construct("CpuClusterRiscV", n,
                     CpuClusterRiscV(system, "CpuClusterRiscV", n, t[1], t[2], t[3], t[4]))

NextCaches ==
    \/ NewCacheCluster
    \/ CallAddL1
    \/ CallAddL2
    \/ CallConnectMemSide

SpecCaches == Init /\ [][NextCaches]_vars

----------------------------------------------------------------------------
(* main(): create(args), then m5.instantiate() *)

(* sys.exit(1) at line 225: starter_se.py does not import sys itself, so   *)
(* the call ends create with SystemExit or with NameError                  *)
ExitStatuses == {"SystemExit", "NameError"}

Create ==
    /\ pc = "start"
    /\ \E args \in ArgSet, st \in ExitStatuses :
          LET r == create(args, cpu_types, cache_size) IN
          /\ r.status # "exit" => st = "SystemExit"
          /\ cpu_types' = r.types
          /\ cache_size' = r.sizes
          /\ system' = r.system
          /\ outcome' = Outcome("create", args.num_cores, 0,
                                IF r.status = "exit" THEN st ELSE r.status, 0, args)
          /\ pc' = IF r.status = "ok" THEN "created" ELSE "aborted"

Instantiate ==
    /\ pc = "created"
    /\ pc' = "instantiated"
    /\ UNCHANGED <<cpu_types, cache_size, system, outcome>>

NextMain == Create \/ Instantiate

SpecMain == Init /\ [][NextMain]_vars

(* the state after a second create() that returned r *)
Rerun(r) ==
    /\ cpu_types' = r.types
    /\ cache_size' = r.sizes
    /\ system' = r.system
    /\ outcome' = Outcome("create", outcome.n, 1,
                          IF r.status = "exit" THEN outcome.status ELSE r.status,
                          0, outcome.args)
    /\ pc' = IF r.status = "ok" THEN "recreated" ELSE "reaborted"

(* create(args) called a second time in the same interpreter with the     *)
(* arguments of the first call: the module-level cpu_types table and the   *)
(* cache size attributes are as the first call left them, the system is a  *)
(* new SimpleSeSystem                                                       *)
Recreate ==
    /\ pc \in {"created", "aborted"}
    /\ Rerun(create(outcome.args, cpu_types, cache_size))

NextRerun == Create \/ Recreate

SpecRerun == Init /\ [][NextRerun]_vars

----------------------------------------------------------------------------
(* Properties *)

Clusters == system.clusters

RECURSIVE CpusBefore(_)
(* number of cores of the clusters registered before the j-th *)
CpusBefore(j) == IF j <= 1 THEN 0 ELSE CpusBefore(j - 1) + Len(Clusters[j - 1].cpus)

(* all core ids of the system, in construction order *)
AllCpuIds == Concat([j \in 1..Len(Clusters) |->
                        [k \in 1..Len(Clusters[j].cpus) |-> Clusters[j].cpus[k].cpu_id]],
                    1, Len(Clusters))

(* the connections a cluster has made to the system bus, in order *)
ClusterBusConns(cl) ==
    SelectSeq(system.membus, LAMBDA c : c.cl = cl.oid /\ c.src \in {"cpu", "l2"})

CoreBusConns(cl) == [k \in 1..Len(cl.cpus) |-> BusConn("cpu", cl.oid, cl.cpus[k].cpu_id)]

L2BusConn(cl) == <<BusConn("l2", cl.oid, -1)>>

(* C1: on a system assembled from cluster composers, the cores of the j-th *)
(* cluster carry the ids numCpus_before .. numCpus_before+N-1 in list      *)
(* order, so all core ids are pairwise distinct, strictly increasing in    *)
(* construction order and are exactly 0 .. total-1.                        *)
C1_GlobalCoreIds ==
    /\ \A j \in 1..Len(Clusters) :
          /\ Len(Clusters[j].cpus) >= 1
          /\ \A k \in 1..Len(Clusters[j].cpus) :
                Clusters[j].cpus[k].cpu_id = CpusBefore(j) + (k - 1)
    /\ Len(AllCpuIds) = numCpus(system)
    /\ \A a, b \in 1..Len(AllCpuIds) : a < b => AllCpuIds[a] < AllCpuIds[b]
    /\ Range(AllCpuIds) = 0..(numCpus(system) - 1)

(* two clusters of two cores each: ids 0,1 then 2,3 *)
C1_Witness ==
    /\ Len(Clusters) = 2
    /\ AllCpuIds = <<0, 1, 2, 3>>
    /\ Len(Clusters[1].cpus) = 2

(* C2 as stated: after connectMemSide a cluster with an L2 type configured *)
(* has exactly one bus connection, the L2's, whatever was called before;   *)
(* a cluster without an L2 type has one per core.                          *)
C2_ByConfiguredType ==
    \A j \in 1..Len(Clusters) :
        MemConnected(Clusters[j]) =>
            ClusterBusConns(Clusters[j]) =
                IF Clusters[j].l2_type # None THEN L2BusConn(Clusters[j])
                ELSE CoreBusConns(Clusters[j])

(* C2 amended: after connectMemSide a cluster whose L2 has been built by   *)
(* addL2 has exactly one bus connection, the L2's, and no core on the bus; *)
(* every other cluster (no L2 type, or addL2 not called) has exactly one   *)
(* bus connection per core.  Whether addL1 was called does not matter.     *)
C2_ByConstructedL2 ==
    \A j \in 1..Len(Clusters) :
        LET cl == Clusters[j] IN
        /\ MemConnected(cl) =>
              ClusterBusConns(cl) = IF L2Added(cl) THEN L2BusConn(cl) ELSE CoreBusConns(cl)
        /\ MemConnected(cl) /\ L2Added(cl) =>
              \A k \in 1..Len(cl.cpus) : cl.cpus[k].cached_to = <<"toL2Bus">>
        /\ ~MemConnected(cl) => ClusterBusConns(cl) = <<>>
        /\ L2Added(cl) => cl.l2_type # None

(* one cluster connected through its L2, another with an L2 type but no    *)
(* addL2 connected core by core                                            *)
C2_Witness ==
    \E i, j \in 1..Len(Clusters) :
        /\ L2Added(Clusters[i]) /\ MemConnected(Clusters[i])
        /\ L1Added(Clusters[i])
        /\ Len(Clusters[i].cpus) = 2
        /\ Clusters[j].l2_type # None /\ ~L2Added(Clusters[j]) /\ MemConnected(Clusters[j])
        /\ Len(ClusterBusConns(Clusters[j])) = 2

Args == outcome.args

AllCpus == Concat([j \in 1..Len(Clusters) |-> Clusters[j].cpus], 1, Len(Clusters))

(* C3: whenever create() is given a number of commands different from the  *)
(* core count, it ends with an error, m5.instantiate is never reached and  *)
(* no core holds a workload.                                               *)
C3_MismatchAborts ==
    (outcome.op = "create" /\ Len(Args.commands_to_run) # Args.num_cores) =>
        /\ pc = "aborted"
        /\ outcome.status # "ok"
        /\ \A k \in 1..Len(AllCpus) : AllCpus[k].workload = 0
        /\ system.workload = None

(* three commands for two cores, rejected by the count check *)
C3_Witness ==
    /\ pc = "aborted"
    /\ outcome.status \in ExitStatuses
    /\ Args.num_cores = 2
    /\ Len(Args.commands_to_run) = 3
    /\ Len(AllCpus) = 2

(* C4: create() with the L2 size override "0" builds, for every selector,  *)
(* a cluster without L2 and without L2 crossbar whose cores are each       *)
(* connected to the system bus; the topology is the one built from a table *)
(* entry whose L2 type was None from the start.                            *)
C4_L2ZeroOmitsL2 ==
    (outcome.op = "create" /\ Args.l2_size = "0" /\ outcome.status \in {"ok"} \cup ExitStatuses) =>
        LET cl == Clusters[1]
            t == cpu_types_init[Args.cpu]
            ref == create([Args EXCEPT !.l2_size = ""],
                          [cpu_types_init EXCEPT ![Args.cpu] = <<t[1], t[2], t[3], None>>],
                          cache_size_init)
        IN /\ Len(cl.l2) = 0
           /\ Len(cl.toL2Bus) = 0
           /\ Len(cl.cpus) = Args.num_cores
           /\ \A k \in 1..Len(cl.cpus) : cl.cpus[k].cached_to = <<"membus">>
           /\ ClusterBusConns(cl) = CoreBusConns(cl)
           /\ cl.l1i_type = t[2] /\ cl.l1d_type = t[3]
           /\ system = ref.system

C4_Witness ==
    /\ pc = "instantiated"
    /\ Args.cpu = "timing"
    /\ Args.l2_size = "0"
    /\ Args.num_cores = 2
    /\ L1Added(Clusters[1])
    /\ Len(ClusterBusConns(Clusters[1])) = 2

ClusterCtors == {"CpuClusterRiscV", "AtomicCluster", "KvmCluster", "FastmodelCluster"}

(* C5: a construction of any cluster variant with core count <= 0 ends     *)
(* with an error and leaves the system's cluster list and core-count tally *)
(* as they were.                                                           *)
C5_NonPositiveCountRejected ==
    [][(outcome'.op \in ClusterCtors /\ outcome'.n <= 0) =>
          /\ outcome'.status # "ok"
          /\ system'.clusters = system.clusters
          /\ system'.num_cpus = system.num_cpus]_vars

(* a Fastmodel cluster of 0 cores refused on a system that already has a   *)
(* cluster                                                                 *)
C5_Witness ==
    /\ outcome.op = "FastmodelCluster"
    /\ outcome.n = 0
    /\ outcome.status = "AssertionError"
    /\ Len(Clusters) = 1
    /\ numCpus(system) = 2

HexValue(d) == CHOOSE v \in 0..15 : HexDigits[v + 1] = d

RECURSIVE ParseHexDigits(_)
ParseHexDigits(ds) ==
    IF Len(ds) = 0 THEN 0
    ELSE ParseHexDigits(SubSeq(ds, 1, Len(ds) - 1)) * 16 + HexValue(ds[Len(ds)])

(* the number written as 0x... *)
ParseHex(str) == ParseHexDigits(SubSeq(str, 3, Len(str)))

RedistTable == Gic(system).reg_base_per_redistributor

(* C6: the address serialized for core index i is                          *)
(* redist_base + frame_size * i with frame size 0x20000 without and        *)
(* 0x40000 with has_gicv4_1; the addresses are pairwise distinct and       *)
(* consecutive cores are exactly one frame apart.  A constructed cluster   *)
(* of N cores (N in 1..4) has N entries.                                   *)
C6_RedistributorAddresses ==
    LET fs == IF Gic(system).has_gicv4_1 THEN 262144 ELSE 131072
        addr(k) == ParseHex(RedistTable[k].addr)
    IN /\ \A k \in 1..Len(RedistTable) :
             /\ RedistTable[k].aff = <<0, 0, k - 1, 0>>
             /\ SubSeq(RedistTable[k].addr, 1, 2) = <<"0", "x">>
             /\ addr(k) = Gic(system).redist_base + fs * (k - 1)
       /\ \A a, b \in 1..Len(RedistTable) :
             a # b => addr(a) # addr(b) /\ RedistTable[a].addr # RedistTable[b].addr
       /\ \A k \in 1..(Len(RedistTable) - 1) : addr(k + 1) - addr(k) = fs
       /\ (outcome.op = "FastmodelCluster" /\ outcome.status = "ok") =>
             /\ outcome.n \in 1..4
             /\ Len(RedistTable) = outcome.n
             /\ Len(Gic(system).cpu_affinities) = outcome.n

(* four cores, 0x40000 frames above a non-zero base *)
C6_Witness ==
    /\ outcome.op = "FastmodelCluster"
    /\ outcome.status = "ok"
    /\ Len(RedistTable) = 4
    /\ Gic(system).has_gicv4_1
    /\ Gic(system).redist_base = 738263040
    /\ RedistTable[4].addr = <<"0", "x", "2", "c", "0", "d", "0", "0", "0", "0">>

(* C7: a FastmodelCluster construction with more than 4 cores ends with an *)
(* error, instantiates no external core model and registers nothing.       *)
C7_TooManyCoresFatal ==
    [][(outcome'.op = "FastmodelCluster" /\ outcome'.n > 4) =>
          /\ outcome'.status # "ok"
          /\ outcome'.ext = 0
          /\ system'.clusters = system.clusters
          /\ system'.num_cpus = system.num_cpus
          /\ numCpuClusters(system') = numCpuClusters(system)]_vars

C7_Witness ==
    /\ outcome.op = "FastmodelCluster"
    /\ outcome.n = 5
    /\ outcome.status = "AssertionError"
    /\ Len(Clusters) = 1
    /\ Len(Gic(system).cpu_affinities) = 5

(* C8: addL2 on a cluster without an L2 type returns normally and changes  *)
(* nothing: no L2, no crossbar, the port connections of every core and all *)
(* other state of the cluster and of the system as before.                 *)
C8_AddL2NoOp ==
    [][(outcome'.op = "addL2" /\ system.clusters[outcome'.idx].l2_type = None) =>
          /\ outcome'.status = "ok"
          /\ system' = system
          /\ Len(system'.clusters[outcome'.idx].l2) = 0
          /\ Len(system'.clusters[outcome'.idx].toL2Bus) = 0]_vars

(* addL2 called on a two-core composer cluster with L1 types but no L2 type *)
C8_Witness ==
    /\ outcome.op = "addL2"
    /\ Clusters[outcome.idx].kind = "CpuClusterRiscV"
    /\ Clusters[outcome.idx].l2_type = None
    /\ Clusters[outcome.idx].l1i_type # None
    /\ Len(Clusters[outcome.idx].cpus) = 2
    /\ ~L2Added(Clusters[outcome.idx])

(* C9: create() for a timing core type with L1I, L1D and L2 types builds   *)
(* N private L1I and N private L1D caches, one per core, one shared L2,    *)
(* one crossbar with N core-side connections, and the cluster's only       *)
(* connection to the system bus is the L2's memory-side port.              *)
C9_TimingTopology ==
    (/\ outcome.op = "create" /\ outcome.status \in {"ok"} \cup ExitStatuses
     /\ memory_mode(cpu_types[Args.cpu][1]) = "timing"
     /\ cpu_types[Args.cpu][2] # None /\ cpu_types[Args.cpu][3] # None
     /\ cpu_types[Args.cpu][4] # None) =>
        LET cl == Clusters[1]
            N == Args.num_cores
        IN /\ N >= 1 /\ Len(Clusters) = 1 /\ Len(cl.cpus) = N
           /\ cl.l1i_built = N /\ cl.l1d_built = N
           /\ \A k \in 1..N :
                 /\ cl.cpus[k].icache = cpu_types[Args.cpu][2]
                 /\ cl.cpus[k].dcache = cpu_types[Args.cpu][3]
                 /\ cl.cpus[k].cached_to = <<"toL2Bus">>
           /\ Len(cl.l2) = 1 /\ cl.l2[1].type = cpu_types[Args.cpu][4]
           /\ Len(cl.toL2Bus) = 1
           /\ Len(cl.toL2Bus[1].cpu_side_ports) = N
           /\ cl.toL2Bus[1].cpu_side_ports = [k \in 1..N |-> cl.cpus[k].cpu_id]
           /\ cl.toL2Bus[1].mem_side_ports = "l2.cpu_side"
           /\ cl.l2[1].mem_side = "membus"
           /\ ClusterBusConns(cl) = L2BusConn(cl)
           /\ system.mem_mode = "timing"

(* the stated scenario: --cpu timing with two cores *)
C9_Witness ==
    /\ pc = "instantiated"
    /\ Args.cpu = "timing"
    /\ Args.num_cores = 2
    /\ Args.l2_size = ""
    /\ Len(Clusters[1].toL2Bus[1].cpu_side_ports) = 2
    /\ Clusters[1].l1d_built = 2

(* a cluster of the atomic core type: AtomicCluster, or the composer given *)
(* the "atomic" table entry                                                *)
IsAtomic(cl) ==
    \/ cl.kind = "AtomicCluster"
    \/ /\ cl.kind = "CpuClusterRiscV"
       /\ <<cl.cpu_type, cl.l1i_type, cl.l1d_type, cl.l2_type>> = cpu_types_init["atomic"]

AtomicShape ==
    \A j \in 1..Len(Clusters) :
        LET cl == Clusters[j] IN
        IsAtomic(cl) =>
            /\ memoryMode(cl) = "atomic"
            /\ Len(cl.cpus) >= 1
            /\ cl.l1i_built = 0 /\ cl.l1d_built = 0
            /\ Len(cl.l2) = 0 /\ Len(cl.toL2Bus) = 0
            /\ \A k \in 1..Len(cl.cpus) :
                  cl.cpus[k].icache = None /\ cl.cpus[k].dcache = None
            /\ MemConnected(cl) =>
                  /\ ClusterBusConns(cl) = CoreBusConns(cl)
                  /\ \A k \in 1..Len(cl.cpus) : cl.cpus[k].cached_to = <<"membus">>

(* C10: a cluster of the atomic core type is built for any core count      *)
(* N >= 1, by AtomicCluster or by the composer given the "atomic" table    *)
(* entry; on it addL1 and addL2 change nothing (no cache, no crossbar),    *)
(* connectMemSide connects each of the N cores to the system bus, and      *)
(* memoryMode() is "atomic".                                               *)
C10_AtomicCluster ==
    [][/\ AtomicShape'
       /\ (outcome'.op \in {"addL1", "addL2"} /\ IsAtomic(system.clusters[outcome'.idx])) =>
              system' = system
       /\ (outcome'.op = "connectMemSide" /\ IsAtomic(system.clusters[outcome'.idx])) =>
              Len(system'.membus) = Len(system.membus) +
                                    Len(system.clusters[outcome'.idx].cpus)
       /\ (outcome'.op = "AtomicCluster" /\ outcome'.n >= 1) =>
              /\ outcome'.status = "ok"
              /\ numCpuClusters(system') = numCpuClusters(system) + 1
              /\ Len(system'.clusters[Len(system'.clusters)].cpus) = outcome'.n
              /\ IsAtomic(system'.clusters[Len(system'.clusters)])]_vars

(* the system create() has built: it returned, or stopped at the command   *)
(* count check after the cluster was wired                                 *)
Built == outcome.op = "create" /\ outcome.status \in {"ok"} \cup ExitStatuses

(* C11: the system's mem_mode after create() is the memoryMode() of its    *)
(* single cluster, which is the mode of the core class the selector names  *)
(* in the core-type table; the cache size overrides, the L2 "0" sentinel,  *)
(* the instruction cap and the SimPoint option do not change it.           *)
C11_MemModeFromCoreType ==
    Built =>
        /\ Len(Clusters) = 1
        /\ system.mem_mode = memoryMode(Clusters[1])
        /\ system.mem_mode = memory_mode(cpu_types_init[Args.cpu][1])
        /\ system.mem_mode \in {"atomic", "timing", "atomic_noncaching"}

(* the "ac" selector with every override given: caches are wired, the mode *)
(* is still the atomic core's                                              *)
C11_Witness ==
    /\ pc = "instantiated"
    /\ Args.cpu = "ac"
    /\ Args.l2_size = "0" /\ Args.l1d_size = "64kB" /\ Args.l1i_size = "64kB"
    /\ Args.maxinsts = 1000 /\ Args.simpoint_profile
    /\ L1Added(Clusters[1])
    /\ system.mem_mode = "atomic"

(* the structural shape of a topology: counts and presence only, no ids *)
ClusterShape(cl) ==
    [cores      |-> Len(cl.cpus),
     l1         |-> [k \in 1..Len(cl.cpus) |->
                       <<cl.cpus[k].icache # None, cl.cpus[k].dcache # None>>],
     l1i_built  |-> cl.l1i_built,
     l1d_built  |-> cl.l1d_built,
     l2         |-> Len(cl.l2),
     xbar       |-> Len(cl.toL2Bus),
     xbar_conns |-> IF Len(cl.toL2Bus) > 0 THEN Len(cl.toL2Bus[1].cpu_side_ports) ELSE 0,
     upstream   |-> [k \in 1..Len(cl.cpus) |-> cl.cpus[k].cached_to]]

Shape(sys) ==
    [clusters  |-> [j \in 1..Len(sys.clusters) |-> ClusterShape(sys.clusters[j])],
     num_cpus  |-> sys.num_cpus,
     bus_conns |-> Len(sys.membus),
     mem_conns |-> Len(sys.membus_mem),
     mem_mode  |-> sys.mem_mode]

(* C12: a second create() with the configuration of the first ends the     *)
(* same way and builds a topology of the same shape: the same number of    *)
(* cores, the same L1, L2 and crossbar presence, the same numbers of       *)
(* crossbar and bus connections.                                           *)
C12_SameShapeOnRerun ==
    [][pc' \in {"recreated", "reaborted"} =>
          /\ outcome'.args = outcome.args
          /\ outcome'.status = outcome.status
          /\ Shape(system') = Shape(system)
          /\ (pc' = "recreated") = (pc = "created")]_vars

(* the second run of a two-core timing configuration with the L2 "0"       *)
(* sentinel, which the first run wrote into the core-type table            *)
C12_Witness ==
    /\ pc = "recreated"
    /\ Args.cpu = "timing"
    /\ Args.l2_size = "0"
    /\ Args.num_cores = 2
    /\ cpu_types["timing"][4] = None
    /\ Shape(system).clusters[1].l2 = 0
    /\ Shape(system).bus_conns = 3

(* C13: private L1 caches are constructed and attached for a core only if  *)
(* both the L1I and the L1D type are configured; on a cluster with exactly *)
(* one of the two configured no L1 cache instance is constructed for any   *)
(* core.                                                                   *)
C13_L1OnlyWhenBothConfigured ==
    \A j \in 1..Len(Clusters) :
        LET cl == Clusters[j]
            both == cl.l1i_type # None /\ cl.l1d_type # None
        IN /\ (cl.l1i_built > 0 \/ cl.l1d_built > 0) => both
           /\ \A k \in 1..Len(cl.cpus) :
                 (cl.cpus[k].icache # None \/ cl.cpus[k].dcache # None) => both
           /\ (cl.l1i_type = None) # (cl.l1d_type = None) =>
                 cl.l1i_built = 0 /\ cl.l1d_built = 0

(* the cluster method m is among the calls SimpleSeSystem.__init__ made *)
Called(m) == \E i \in 1..Len(system.trace) : system.trace[i] = m

(* C14: for every entry of the core-type table, SimpleSeSystem calls addL1 *)
(* and addL2 on its cluster if and only if the cluster's memoryMode() is   *)
(* timing; no selector is wired on any other ground.                       *)
C14_WiringByMemoryMode ==
    Built =>
        /\ Called("addL1") <=> memoryMode(Clusters[1]) = "timing"
        /\ Called("addL2") <=> memoryMode(Clusters[1]) = "timing"

(* the core count a cluster was registered with *)
CoreCount(cl) == IF cl.kind = "FastmodelCluster" THEN Len(cl.cores) ELSE Len(cl.cpus)

RECURSIVE SumCoreCounts(_, _)
SumCoreCounts(cls, j) == IF j = 0 THEN 0 ELSE SumCoreCounts(cls, j - 1) + CoreCount(cls[j])

(* the tallies agree with the list, and no cluster is listed twice *)
RegistryConsistent(sys) ==
    /\ numCpuClusters(sys) = Len(sys.clusters)
    /\ numCpus(sys) = SumCoreCounts(sys.clusters, Len(sys.clusters))
    /\ \A a, b \in 1..Len(sys.clusters) : a # b => sys.clusters[a].oid # sys.clusters[b].oid
    /\ \A a \in 1..Len(sys.clusters) : CoreCount(sys.clusters[a]) >= 1

(* C15: registration is append-only and happens once per cluster.  A       *)
(* successful construction appends the new cluster to the list and adds    *)
(* its core count to the total, so numCpuClusters() is the number of       *)
(* clusters constructed and numCpus() the sum of their core counts, each   *)
(* cluster being listed once; a failed construction, or addCpuCluster for  *)
(* a cluster already registered or with a core count <= 0, ends with an    *)
(* error and leaves both tallies as they were.                             *)
C15_RegistrationAppendOnly ==
    [][/\ RegistryConsistent(system')
       /\ (outcome'.op \in ClusterCtors /\ outcome'.status = "ok") =>
              /\ numCpuClusters(system') = numCpuClusters(system) + 1
              /\ numCpus(system') = numCpus(system) + outcome'.n
              /\ SubSeq(system'.clusters, 1, Len(system.clusters)) = system.clusters
              /\ CoreCount(system'.clusters[Len(system'.clusters)]) = outcome'.n
       /\ (outcome'.op \in ClusterCtors /\ outcome'.status # "ok") =>
              /\ system'.clusters = system.clusters
              /\ numCpus(system') = numCpus(system)
       /\ outcome'.op = "addCpuCluster" =>
              /\ outcome'.status = "AssertionError"
              /\ system'.clusters = system.clusters
              /\ numCpuClusters(system') = numCpuClusters(system)
              /\ numCpus(system') = numCpus(system)]_vars

(* two clusters registered, the second one then offered again with a       *)
(* positive core count                                                     *)
C15_Witness ==
    /\ outcome.op = "addCpuCluster"
    /\ outcome.idx = 2
    /\ outcome.n = 1
    /\ outcome.status = "AssertionError"
    /\ numCpuClusters(system) = 2
    /\ numCpus(system) = 3
    /\ Clusters[2].kind = "FastmodelCluster"

(* the process made for the i-th command (1-based): pid 100 + (i - 1) *)
ProcessOf(i) == [pid |-> PidBase + (i - 1), cmd |-> Args.commands_to_run[i]]

(* C16: when create() is given as many commands as cores, it returns with  *)
(* the i-th core holding the process of the i-th command: every core holds *)
(* exactly one process, no process is held by two cores and none is left   *)
(* out.                                                                    *)
C16_WorkloadBinding ==
    (outcome.op = "create" /\ outcome.status \in {"ok"} \cup ExitStatuses
       /\ Len(Args.commands_to_run) = Args.num_cores) =>
        LET cpus == Clusters[1].cpus
            N == Len(Args.commands_to_run)
        IN /\ outcome.status = "ok"
           /\ Len(cpus) = N
           /\ \A k \in 1..N :
                 /\ cpus[k].workload = ProcessOf(k).pid
                 /\ ProcessOf(k).cmd = Args.commands_to_run[cpus[k].workload - PidBase + 1]
           /\ \A a, b \in 1..N : a # b => cpus[a].workload # cpus[b].workload
           /\ {cpus[k].workload : k \in 1..N} = {ProcessOf(i).pid : i \in 1..N}
           /\ system.workload = "SEWorkload"

(* two commands on two cores: pids 100 and 101 in core order *)
C16_Witness ==
    /\ pc = "instantiated"
    /\ Args.num_cores = 2
    /\ Len(Args.commands_to_run) = 2
    /\ Clusters[1].cpus[1].workload = 100
    /\ Clusters[1].cpus[2].workload = 101

(* how many times SimpleSeSystem.__init__ called the cluster method m *)
CallCount(m) == Len(SelectSeq(system.trace, LAMBDA c : c = m))

(* the position of the first call of m in the call sequence, 0 if none *)
FirstCall(m) ==
    IF Called(m) THEN CHOOSE i \in 1..Len(system.trace) :
                         /\ system.trace[i] = m
                         /\ \A j \in 1..(i - 1) : system.trace[j] # m
    ELSE 0

(* C17: in every run of create() the cluster methods are called in the     *)
(* order addL1, addL2, connectMemSide, each at most once and               *)
(* connectMemSide exactly once and last; in the topology built every core  *)
(* has been connected to exactly one upstream interconnect, the L2         *)
(* crossbar if an L2 was constructed and the system bus otherwise.         *)
C17_WiringBeforeMemSide ==
    Built =>
        LET cl == Clusters[1] IN
        /\ CallCount("addL1") <= 1 /\ CallCount("addL2") <= 1
        /\ CallCount("connectMemSide") = 1
        /\ system.trace[Len(system.trace)] = "connectMemSide"
        /\ Called("addL1") = Called("addL2")
        /\ Called("addL1") => FirstCall("addL1") < FirstCall("addL2")
        /\ Called("addL2") => FirstCall("addL2") < FirstCall("connectMemSide")
        /\ MemConnected(cl)
        /\ \A k \in 1..Len(cl.cpus) :
              /\ Len(cl.cpus[k].cached_to) = 1
              /\ cl.cpus[k].cached_to[1] = IF L2Added(cl) THEN "toL2Bus" ELSE "membus"
        /\ L2Added(cl) =>
              /\ ClusterBusConns(cl) = L2BusConn(cl)
              /\ cl.toL2Bus[1].cpu_side_ports = [k \in 1..Len(cl.cpus) |-> cl.cpus[k].cpu_id]
        /\ ~L2Added(cl) => ClusterBusConns(cl) = CoreBusConns(cl)

(* a finished two-core "hpi" system: all three calls made, the cores on    *)
(* the L2 crossbar only                                                    *)
C17_Witness ==
    /\ pc = "instantiated"
    /\ Args.cpu = "hpi"
    /\ Args.num_cores = 2
    /\ system.trace = <<"addL1", "addL2", "connectMemSide">>
    /\ L2Added(Clusters[1])
    /\ Clusters[1].cpus[2].cached_to = <<"toL2Bus">>

(* C18: a FastmodelCluster construction that fails because the core count *)
(* exceeds 4 leaves the owning system as it was: the interrupt             *)
(* controller's cpu_affinities, reg_base_per_redistributor and amba_s are  *)
(* unmodified and no gic_hub bridge sub-assembly has been attached.        *)
C18_FailedFastmodelLeavesSystem ==
    [][(outcome'.op = "FastmodelCluster" /\ outcome'.n > MaxFastmodelCores) =>
          /\ outcome'.status # "ok"
          /\ Gic(system').cpu_affinities = Gic(system).cpu_affinities
          /\ Gic(system').reg_base_per_redistributor = Gic(system).reg_base_per_redistributor
          /\ Gic(system').amba_s = Gic(system).amba_s
          /\ system'.gic_hub = system.gic_hub]_vars

====
